---- MODULE Spec2Model ----
(***************************************************************************)
(* Model of the Wrench HDR rendering code (src/wrench/graphics).           *)
(*                                                                         *)
(* Conventions                                                             *)
(*  - Real numbers are fixed point: time of day in whole hours, delta_time *)
(*    in seconds, precipitation and intensities in tenths, directions and  *)
(*    sun quantities in thousandths, cloud drift in hundredths.            *)
(*  - Names the source uses without defining them (backend hooks such as   *)
(*    _render_post_processing or _extract_bright_pixels) are opaque calls: *)
(*    the model records the call and its arguments, nothing more.          *)
(*  - HDRRenderer is defined with two overlapping method sets; the model   *)
(*    follows the deferred G-buffer pipeline (render_scene at lines        *)
(*    1350-1394 of hdr_graphics.py).                                       *)
(***************************************************************************)
EXTENDS Integers, Sequences, FiniteSets, TLC

VARIABLES
  atmosphere,   \* the AtmosphereSettings object
  pp_enabled,   \* PostProcessor.effects_enabled
  pp_params,    \* PostProcessor.params (the bloom entries)
  pp_call,      \* the last apply_effects call: its arguments and what it did
  renderer,     \* the HDRRenderer object: hdr_enabled, stats, optional methods
  frame,        \* the last render_scene call: its arguments and what it did
  lights,       \* the Light objects added to the renderer, in order
  shading,      \* the last evaluation of the lighting fragment shader
  pp_set,       \* the last write to effects_enabled or params
  gl_objects,   \* the OpenGL objects that exist (created and not deleted)
  hdr,          \* the HDRRenderer under construction: size, resources, outcome
  tonemap,      \* the last evaluation of the tone mapping fragment shader
  bloom,        \* the moderngl renderer's frame: framebuffer in use, blur passes
  game_scene,   \* the Scene object and the life cycle of its game objects
  input_manager, \* the InputManager: registered callbacks and their invocations
  game_camera   \* the Camera object: zoom and its limits

vars == <<atmosphere, pp_enabled, pp_params, pp_call, renderer, frame,
          lights, shading, pp_set, gl_objects, hdr, tonemap,
          bloom, game_scene, input_manager, game_camera>>
option_vars == <<pp_set>>
resource_vars == <<gl_objects, hdr>>
tonemap_vars == <<tonemap>>
ext_vars == <<option_vars, resource_vars, tonemap_vars>>
bloom_vars == <<bloom>>
scene_vars == <<game_scene>>
input_vars == <<input_manager>>
camera_vars == <<game_camera>>
late_vars == <<bloom_vars, scene_vars, input_vars, camera_vars>>
shadow_vars == <<lights, shading>>
atmosphere_vars == <<atmosphere>>
pp_vars == <<pp_enabled, pp_params, pp_call>>
render_vars == <<renderer, frame>>

(***************************************************************************)
(* Bounds of the model                                                     *)
(***************************************************************************)
MaxDtHours == 13
MaxTimeScale == 2
MaxTimeOfDay == 40
MaxElapsedHours == 30
MaxObjects == 2
MaxSceneLights == 2
MaxLights == 5
MaxShaderLights == 2
MaxSize == 2
MaxResizes == 2
MaxGameObjects == 2
MaxPending == 2
MaxHandlers == 2
MaxZoomExplored == 60

(***************************************************************************)
(* AtmosphereSettings (hdr_graphics.py 415-590)                            *)
(***************************************************************************)
HoursPerDay == 24
SecondsPerHour == 3600
PrecipitationThreshold == 5

\* delta_time values (seconds) passed to update
DtChoices == {h * SecondsPerHour : h \in {0, 1, 5, MaxDtHours}}

\* cloud precipitation values (tenths) written by the application
PrecipitationLevels == {0, 5, 6, 9}

Max(a, b) == IF a >= b THEN a ELSE b
Min(a, b) == IF a <= b THEN a ELSE b

\* normalize(vec3(sin(az)cos(zen), sin(zen), cos(az)cos(zen))) in thousandths,
\* zen = cos(2 pi t / 24), az = 0.5 sin(2 pi t / 24), tabulated for whole hours
SunDirectionTable ==
  << <<0, 841, 540>>,    <<73, 823, 564>>,    <<160, 762, 628>>,
     <<263, 650, 713>>,  <<368, 479, 797>>,   <<449, 256, 856>>,
     <<479, 0, 878>>,    <<449, -256, 856>>,  <<368, -479, 797>>,
     <<263, -650, 713>>, <<160, -762, 628>>,  <<73, -823, 564>>,
     <<0, -841, 540>>,   <<-73, -823, 564>>,  <<-160, -762, 628>>,
     <<-263, -650, 713>>, <<-368, -479, 797>>, <<-449, -256, 856>>,
     <<-479, 0, 878>>,   <<-449, 256, 856>>,  <<-368, 479, 797>>,
     <<-263, 650, 713>>, <<-160, 762, 628>>,  <<-73, 823, 564>> >>

\* _update_sun_position: direction, colour blend factor and intensity are
\* re-derived from time_of_day (the trigonometric functions have period 24 h)
_update_sun_position(a) ==
  LET dir == SunDirectionTable[(a.time_of_day % HoursPerDay) + 1]
      sun_angle == Max(0, dir[2])
  IN [a EXCEPT !.sun_direction = dir,
               !.moon_direction = <<-dir[1], -dir[2], -dir[3]>>,
               !.sun_color = Min(1000, sun_angle * 2),
               !.sun_intensity = Max(0, ((dir[2] * 3) \div 2) + 200)]

\* update, first part (lines 538-541): advance the clock, wrap once at 24 h
advance_time(a, delta_time) ==
  LET t == a.time_of_day + ((delta_time * a.time_scale) \div SecondsPerHour)
  IN [a EXCEPT !.time_of_day = IF t >= HoursPerDay THEN t - HoursPerDay ELSE t]

\* update, cloud movement (lines 546-548):
\* wind_direction += wind.direction (1, 0) * wind.speed (5.0) * 0.01 * delta_time
move_clouds(a, delta_time) ==
  [a EXCEPT !.clouds_wind_direction = @ + 5 * delta_time]

\* a plausible slip: the intensity of the active kind follows the clouds
update_weather_tracks_clouds(a, is_snow) ==
  IF a.precipitation > PrecipitationThreshold
  THEN IF ~a.rain_enabled /\ ~a.snow_enabled
       THEN IF is_snow
            THEN [a EXCEPT !.snow_enabled = TRUE, !.snow_intensity = a.precipitation]
            ELSE [a EXCEPT !.rain_enabled = TRUE, !.rain_intensity = a.precipitation]
       ELSE IF a.snow_enabled
            THEN [a EXCEPT !.snow_intensity = a.precipitation]
            ELSE [a EXCEPT !.rain_intensity = a.precipitation]
  ELSE [a EXCEPT !.rain_enabled = FALSE, !.snow_enabled = FALSE]

\* a plausible slip: rain and snow keep falling when the clouds thin out
update_weather_never_stops(a, is_snow) ==
  IF a.precipitation > PrecipitationThreshold /\ ~a.rain_enabled /\ ~a.snow_enabled
  THEN IF is_snow
       THEN [a EXCEPT !.snow_enabled = TRUE, !.snow_intensity = a.precipitation]
       ELSE [a EXCEPT !.rain_enabled = TRUE, !.rain_intensity = a.precipitation]
  ELSE a

\* a plausible slip: the new precipitation kind is started whenever that kind
\* is not already active, without looking at the other kind
update_weather_unguarded(a, is_snow) ==
  IF a.precipitation > PrecipitationThreshold
  THEN IF is_snow /\ ~a.snow_enabled
       THEN [a EXCEPT !.snow_enabled = TRUE, !.snow_intensity = a.precipitation]
       ELSE IF ~is_snow /\ ~a.rain_enabled
            THEN [a EXCEPT !.rain_enabled = TRUE, !.rain_intensity = a.precipitation]
            ELSE a
  ELSE [a EXCEPT !.rain_enabled = FALSE, !.snow_enabled = FALSE]

\* update, rain/snow (lines 550-563); is_snow is the outcome of
\* random.random() > 0.7
update_weather(a, is_snow) ==
  IF a.precipitation > PrecipitationThreshold
  THEN IF ~a.rain_enabled /\ ~a.snow_enabled
       THEN IF is_snow
            THEN [a EXCEPT !.snow_enabled = TRUE, !.snow_intensity = a.precipitation]
            ELSE [a EXCEPT !.rain_enabled = TRUE, !.rain_intensity = a.precipitation]
       ELSE a
  ELSE [a EXCEPT !.rain_enabled = FALSE, !.snow_enabled = FALSE]

\* AtmosphereSettings.update(delta_time)
update(a, delta_time, is_snow) ==
  update_weather(move_clouds(_update_sun_position(advance_time(a, delta_time)),
                             delta_time),
                 is_snow)

\* get_atmosphere_uniforms: the two precipitation entries
get_atmosphere_uniforms(a) ==
  [rain_intensity |-> IF a.rain_enabled THEN a.rain_intensity ELSE 0,
   snow_intensity |-> IF a.snow_enabled THEN a.snow_intensity ELSE 0]

\* AtmosphereSettings.__init__
AtmosphereInit ==
  _update_sun_position(
    [time_of_day |-> 12, time_scale |-> 1,
     sun_direction |-> <<408, 816, 408>>, moon_direction |-> <<0, 0, 0>>,
     sun_color |-> 1000, sun_intensity |-> 1000,
     clouds_wind_direction |-> 100, precipitation |-> 0,
     rain_enabled |-> FALSE, rain_intensity |-> 0,
     snow_enabled |-> FALSE, snow_intensity |-> 0])

\* drift accumulated by the clouds, in hours of delta_time
ElapsedHours(a) == (a.clouds_wind_direction - 100) \div (5 * SecondsPerHour)

Update(delta_time, is_snow) ==
  LET a == update(atmosphere, delta_time, is_snow)
  IN /\ a.time_of_day <= MaxTimeOfDay
     /\ ElapsedHours(a) <= MaxElapsedHours
     /\ atmosphere' = a
     /\ UNCHANGED <<pp_vars, render_vars, shadow_vars, ext_vars, late_vars>>

\* the application writes weather['clouds']['precipitation']
SetPrecipitation(p) ==
  /\ atmosphere.precipitation # p
  /\ atmosphere' = [atmosphere EXCEPT !.precipitation = p]
  /\ UNCHANGED <<pp_vars, render_vars, shadow_vars, ext_vars, late_vars>>

\* the application writes time_scale
SetTimeScale(s) ==
  /\ atmosphere.time_scale # s
  /\ atmosphere' = [atmosphere EXCEPT !.time_scale = s]
  /\ UNCHANGED <<pp_vars, render_vars, shadow_vars, ext_vars, late_vars>>

AtmosphereUpdateStep == \E dt \in DtChoices, s \in BOOLEAN : Update(dt, s)
AtmospherePrecipitationStep == \E p \in PrecipitationLevels : SetPrecipitation(p)
AtmosphereTimeScaleStep == \E s \in 0..MaxTimeScale : SetTimeScale(s)

NextAtmosphere ==
  \/ AtmosphereUpdateStep
  \/ AtmospherePrecipitationStep
  \/ AtmosphereTimeScaleStep


(***************************************************************************)
(* PostProcessor (hdr_graphics.py 592-861)                                 *)
(***************************************************************************)
EffectNames ==
  {"tone_mapping", "bloom", "ssr", "ssao", "dof", "motion_blur",
   "chromatic_aberration", "vignette", "film_grain", "lens_flares",
   "color_grading", "fxaa", "taa", "sharpen"}

\* PostProcessor.__init__: effects_enabled
DefaultEffectsEnabled ==
  [e \in EffectNames |->
     e \in {"tone_mapping", "bloom", "ssr", "ssao", "vignette", "lens_flares",
            "color_grading", "fxaa", "sharpen"}]

\* PostProcessor.__init__: params, the bloom entries (threshold in tenths,
\* intensity in hundredths, radius and knee in tenths)
DefaultBloomParams ==
  [bloom_threshold |-> 10, bloom_intensity |-> 4, bloom_radius |-> 6, bloom_knee |-> 1]

\* values the application may write into the bloom parameters
BloomParamChoices ==
  [bloom_threshold : {10, 20}, bloom_intensity : {0, 4},
   bloom_radius : {6, 12}, bloom_knee : {1, 2}]

\* textures: None, a texture handed in by the caller, or what a backend
\* hook returned (the hook's name and arguments)
NoneTexture == [kind |-> "None"]
InputTexture(n) == [kind |-> "input", id |-> n]

\* the hooks _apply_bloom calls; PostProcessor does not define them
_extract_bright_pixels(tex, threshold) ==
  [kind |-> "_extract_bright_pixels", source |-> tex, threshold |-> threshold]
_blur_texture(tex, radius) ==
  [kind |-> "_blur_texture", source |-> tex, radius |-> radius]
_blend_textures(a, b, intensity) ==
  [kind |-> "_blend_textures", source |-> a, other |-> b, intensity |-> intensity]

\* PostProcessor._apply_bloom(source_texture)
_apply_bloom(params, source_texture) ==
  LET threshold == params.bloom_threshold
      bright_pixels == _extract_bright_pixels(source_texture, threshold)
      blurred == _blur_texture(bright_pixels, params.bloom_radius)
  IN _blend_textures(source_texture, blurred, params.bloom_intensity)

\* the stage methods whose body is "pass": they return None
_apply_ssao(source_texture) == NoneTexture
_apply_ssr(source_texture) == NoneTexture
_apply_dof(source_texture) == NoneTexture
_apply_motion_blur(source_texture, velocity_texture) == NoneTexture
_apply_lens_flares(source_texture) == NoneTexture
_apply_color_grading(source_texture) == NoneTexture
_apply_film_grain(source_texture) == NoneTexture
_apply_vignette(source_texture) == NoneTexture
_apply_chromatic_aberration(source_texture) == NoneTexture
_apply_sharpen(source_texture) == NoneTexture
_apply_fxaa(source_texture) == NoneTexture
_apply_taa(source_texture, velocity_texture) == NoneTexture

\* one statement of apply_effects: "if cond: current_target = fn(current_target)"
\* s.target is current_target; s.steps records, for each stage in program
\* order, whether its method was invoked and the target before and after
StageStep(s, stage, fn, cond, out) ==
  LET after == IF cond THEN out ELSE s.target
  IN [target |-> after,
      steps |-> Append(s.steps,
                       [stage |-> stage, fn |-> IF cond THEN fn ELSE "",
                        invoked |-> cond, before |-> s.target, after |-> after])]

\* a plausible slip: bloom is gated on its intensity, not on its flag
bloom_gate_on_intensity(enabled, params) == params.bloom_intensity > 0

\* line 749: if self.effects_enabled['bloom']
bloom_gate(enabled, params) == enabled["bloom"]

\* a plausible slip: tone mapping is moved in front of bloom
apply_effects_tonemap_first(enabled, params, scene_texture, velocity_texture) ==
  LET s0 == [target |-> scene_texture, steps |-> <<>>]
      s1 == StageStep(s0, "ssao", "_apply_ssao", enabled["ssao"],
                      _apply_ssao(s0.target))
      s2 == StageStep(s1, "ssr", "_apply_ssr", enabled["ssr"],
                      _apply_ssr(s1.target))
      s3 == StageStep(s2, "color_grading", "_apply_color_grading", TRUE,
                      _apply_color_grading(s2.target))
      s4 == StageStep(s3, "bloom", "_apply_bloom", bloom_gate(enabled, params),
                      _apply_bloom(params, s3.target))
      s5 == StageStep(s4, "dof", "_apply_dof", enabled["dof"],
                      _apply_dof(s4.target))
      s6 == StageStep(s5, "motion_blur", "_apply_motion_blur",
                      enabled["motion_blur"] /\ velocity_texture # NoneTexture,
                      _apply_motion_blur(s5.target, velocity_texture))
      s7 == StageStep(s6, "lens_flares", "_apply_lens_flares", enabled["lens_flares"],
                      _apply_lens_flares(s6.target))
      s8 == StageStep(s7, "film_grain", "_apply_film_grain", enabled["film_grain"],
                      _apply_film_grain(s7.target))
      s9 == StageStep(s8, "vignette", "_apply_vignette", enabled["vignette"],
                      _apply_vignette(s8.target))
      s10 == StageStep(s9, "chromatic_aberration", "_apply_chromatic_aberration",
                       enabled["chromatic_aberration"],
                       _apply_chromatic_aberration(s9.target))
      s11 == StageStep(s10, "sharpen", "_apply_sharpen", enabled["sharpen"],
                       _apply_sharpen(s10.target))
  IN IF enabled["taa"]
     THEN StageStep(s11, "anti_aliasing", "_apply_taa", TRUE,
                    _apply_taa(s11.target, velocity_texture))
     ELSE StageStep(s11, "anti_aliasing", "_apply_fxaa", enabled["fxaa"],
                    _apply_fxaa(s11.target))

\* PostProcessor.apply_effects(scene_texture, depth_texture, velocity_texture,
\* camera): the returned record holds the returned texture (target) and the
\* per-stage record (steps)
apply_effects(enabled, params, scene_texture, velocity_texture) ==
  LET s0 == [target |-> scene_texture, steps |-> <<>>]
      s1 == StageStep(s0, "ssao", "_apply_ssao", enabled["ssao"],
                      _apply_ssao(s0.target))
      s2 == StageStep(s1, "ssr", "_apply_ssr", enabled["ssr"],
                      _apply_ssr(s1.target))
      s3 == StageStep(s2, "bloom", "_apply_bloom", bloom_gate(enabled, params),
                      _apply_bloom(params, s2.target))
      s4 == StageStep(s3, "dof", "_apply_dof", enabled["dof"],
                      _apply_dof(s3.target))
      s5 == StageStep(s4, "motion_blur", "_apply_motion_blur",
                      enabled["motion_blur"] /\ velocity_texture # NoneTexture,
                      _apply_motion_blur(s4.target, velocity_texture))
      s6 == StageStep(s5, "lens_flares", "_apply_lens_flares", enabled["lens_flares"],
                      _apply_lens_flares(s5.target))
      s7 == StageStep(s6, "color_grading", "_apply_color_grading", TRUE,
                      _apply_color_grading(s6.target))
      s8 == StageStep(s7, "film_grain", "_apply_film_grain", enabled["film_grain"],
                      _apply_film_grain(s7.target))
      s9 == StageStep(s8, "vignette", "_apply_vignette", enabled["vignette"],
                      _apply_vignette(s8.target))
      s10 == StageStep(s9, "chromatic_aberration", "_apply_chromatic_aberration",
                       enabled["chromatic_aberration"],
                       _apply_chromatic_aberration(s9.target))
      s11 == StageStep(s10, "sharpen", "_apply_sharpen", enabled["sharpen"],
                       _apply_sharpen(s10.target))
  IN IF enabled["taa"]
     THEN StageStep(s11, "anti_aliasing", "_apply_taa", TRUE,
                    _apply_taa(s11.target, velocity_texture))
     ELSE StageStep(s11, "anti_aliasing", "_apply_fxaa", enabled["fxaa"],
                    _apply_fxaa(s11.target))

NoCall == [called |-> FALSE]

\* scene textures and velocity buffers handed to apply_effects
SceneTextures == {InputTexture(1)}
VelocityTextures == {NoneTexture, InputTexture(2)}

ApplyEffects(scene_texture, velocity_texture) ==
  /\ ~pp_call.called
  /\ pp_call' = [called |-> TRUE, scene_texture |-> scene_texture,
                 velocity_texture |-> velocity_texture,
                 out |-> apply_effects(pp_enabled, pp_params, scene_texture,
                                       velocity_texture)]
  /\ UNCHANGED <<atmosphere_vars, render_vars, shadow_vars, pp_enabled, pp_params,
                 ext_vars, late_vars>>

\* the caller is done with the returned texture; the configuration is
\* written between calls, not during one
ReleaseResult ==
  /\ pp_call.called
  /\ pp_call' = NoCall
  /\ UNCHANGED <<atmosphere_vars, render_vars, shadow_vars, pp_enabled, pp_params,
                 ext_vars, late_vars>>

\* the application writes effects_enabled[name]
SetEffectEnabled(name, value) ==
  /\ ~pp_call.called
  /\ pp_enabled[name] # value
  /\ pp_enabled' = [pp_enabled EXCEPT ![name] = value]
  /\ UNCHANGED <<atmosphere_vars, render_vars, shadow_vars, pp_params, pp_call,
                 ext_vars, late_vars>>

\* the application writes params['bloom_threshold'] or params['bloom_intensity']
SetBloomParams(threshold, intensity) ==
  /\ ~pp_call.called
  /\ <<pp_params.bloom_threshold, pp_params.bloom_intensity>> # <<threshold, intensity>>
  /\ pp_params' = [pp_params EXCEPT !.bloom_threshold = threshold,
                                    !.bloom_intensity = intensity]
  /\ UNCHANGED <<atmosphere_vars, render_vars, shadow_vars, pp_enabled, pp_call,
                 ext_vars, late_vars>>

PostApplyStep ==
  \E t \in SceneTextures, v \in VelocityTextures : ApplyEffects(t, v)
PostEnableStep ==
  \E e \in EffectNames, b \in BOOLEAN : SetEffectEnabled(e, b)
PostParamStep ==
  \E p \in BloomParamChoices : SetBloomParams(p.bloom_threshold, p.bloom_intensity)

NextPost ==
  \/ PostApplyStep
  \/ ReleaseResult
  \/ PostEnableStep
  \/ PostParamStep

PostInit ==
  /\ pp_enabled = DefaultEffectsEnabled
  /\ pp_params = DefaultBloomParams
  /\ pp_call = NoCall

(***************************************************************************)
(* Writes to the PostProcessor configuration (hdr_graphics.py 624-671):    *)
(* effects_enabled and params are plain dictionaries, written directly     *)
(***************************************************************************)
\* d[key] = value on a Python dict: the key is added when it is new
DictSet(d, key, value) ==
  [k \in DOMAIN d \cup {key} |-> IF k = key THEN value ELSE d[k]]

\* names and values a caller may pass; "lens_flare" and "bloom_strength" are
\* not keys of the dictionaries
OptionEffectNames == {"bloom", "taa", "lens_flare"}
OptionParamNames == {"bloom_threshold", "bloom_intensity", "bloom_strength"}
OptionParamValues == {-10, 4, 20}

NoOptionWrite == [called |-> FALSE]

\* self.effects_enabled[name] = value
WriteEffectOption(name, value) ==
  /\ pp_enabled' = DictSet(pp_enabled, name, value)
  /\ pp_set' = [called |-> TRUE, dict |-> "effects_enabled", name |-> name,
                raised |-> FALSE,
                enabled_before |-> pp_enabled, params_before |-> pp_params]
  /\ UNCHANGED <<atmosphere_vars, render_vars, shadow_vars, pp_params, pp_call,
                 resource_vars, tonemap_vars, late_vars>>

\* self.params[name] = value
WriteParamOption(name, value) ==
  /\ pp_params' = DictSet(pp_params, name, value)
  /\ pp_set' = [called |-> TRUE, dict |-> "params", name |-> name,
                raised |-> FALSE,
                enabled_before |-> pp_enabled, params_before |-> pp_params]
  /\ UNCHANGED <<atmosphere_vars, render_vars, shadow_vars, pp_enabled, pp_call,
                 resource_vars, tonemap_vars, late_vars>>

WriteEffectOptionStep ==
  \E name \in OptionEffectNames, value \in BOOLEAN : WriteEffectOption(name, value)
WriteParamOptionStep ==
  \E name \in OptionParamNames, value \in OptionParamValues :
    WriteParamOption(name, value)

NextOptions == WriteEffectOptionStep \/ WriteParamOptionStep

(***************************************************************************)
(* HDRRenderer.render_scene, deferred pipeline (hdr_graphics.py 1241-1562) *)
(***************************************************************************)
\* sequences over S of length at most n
SeqUpTo(S, n) == UNION {[1..k -> S] : k \in 0..n}

\* scene objects: has_mesh is hasattr(obj, 'mesh'), indices is
\* len(obj.mesh.indices)
SceneObjects ==
  {[has_mesh |-> FALSE, visible |-> TRUE, indices |-> 0],
   [has_mesh |-> TRUE, visible |-> FALSE, indices |-> 7],
   [has_mesh |-> TRUE, visible |-> TRUE, indices |-> 7]}
SceneLights == [enabled : BOOLEAN]
Scenes == [objects : SeqUpTo(SceneObjects, MaxObjects),
           lights : SeqUpTo(SceneLights, MaxSceneLights)]

\* sum over the drawn objects of len(obj.mesh.indices) // 3
RECURSIVE TriangleCount(_)
TriangleCount(objects) ==
  IF objects = <<>> THEN 0
  ELSE (Head(objects).indices \div 3) + TriangleCount(Tail(objects))

\* a call that runs to completion before the caller goes on
Call(name) == <<[pass |-> name, ev |-> "begin"], [pass |-> name, ev |-> "end"]>>

\* _render_geometry_pass: objects without a mesh or not visible are skipped,
\* every other object is drawn and counted
_render_geometry_pass(stats, scene) ==
  LET drawn == SelectSeq(scene.objects, LAMBDA o : o.has_mesh /\ o.visible)
  IN [stats EXCEPT !.draw_calls = @ + Len(drawn),
                   !.triangles = @ + TriangleCount(drawn)]

\* _render_lighting_pass: disabled lights are skipped, every other light
\* draws a fullscreen quad and is counted
_render_lighting_pass(stats, scene) ==
  LET lit == SelectSeq(scene.lights, LAMBDA l : l.enabled)
  IN [stats EXCEPT !.lights_processed = @ + Len(lit)]

\* a plausible slip: the counters of the previous frame are kept
reset_statistics_keeps_counts(stats) == stats

\* render_scene, lines 1367-1370: reset statistics
reset_statistics(stats) ==
  [stats EXCEPT !.draw_calls = 0, !.triangles = 0, !.lights_processed = 0]

\* a plausible slip: the lighting pass is issued before the shadow pass
render_scene_lighting_first(r, scene, shadow_maps) ==
  LET cleared == reset_statistics(r.stats)
      geometry == _render_geometry_pass(cleared, scene)
      shadow == shadow_maps = "None" /\ r.has_render_shadow_pass
      lighting == _render_lighting_pass(geometry, scene)
  IN [stats |-> lighting,
      events |-> <<[pass |-> "camera.update", ev |-> "call"]>>
                 \o Call("geometry")
                 \o Call("lighting")
                 \o (IF shadow THEN Call("shadow") ELSE <<>>)
                 \o (IF r.hdr_enabled THEN Call("post_processing") ELSE <<>>)]

\* render_scene(scene, camera, shadow_maps=None), lines 1350-1394
render_scene(r, scene, shadow_maps) ==
  LET cleared == reset_statistics(r.stats)
      geometry == _render_geometry_pass(cleared, scene)
      shadow == shadow_maps = "None" /\ r.has_render_shadow_pass
      lighting == _render_lighting_pass(geometry, scene)
  IN [stats |-> lighting,
      events |-> <<[pass |-> "camera.update", ev |-> "call"]>>
                 \o Call("geometry")
                 \o (IF shadow THEN Call("shadow") ELSE <<>>)
                 \o Call("lighting")
                 \o (IF r.hdr_enabled THEN Call("post_processing") ELSE <<>>)]

NoFrame == [rendered |-> FALSE]

RenderScene(scene, shadow_maps) ==
  LET out == render_scene(renderer, scene, shadow_maps)
  IN /\ renderer' = [renderer EXCEPT !.stats = out.stats]
     /\ frame' = [rendered |-> TRUE, scene |-> scene, shadow_maps |-> shadow_maps,
                  events |-> out.events]
     /\ UNCHANGED <<atmosphere_vars, pp_vars, shadow_vars, ext_vars,
                 late_vars>>

RenderSceneStep ==
  \E sc \in Scenes, sm \in {"None", "given"} : RenderScene(sc, sm)

NextRender == RenderSceneStep

\* HDRRenderer.__init__(width, height, hdr_enabled=True); has_render_shadow_pass
\* is hasattr(self, '_render_shadow_pass'), a method HDRRenderer itself does
\* not define and a subclass may
RenderInit ==
  /\ renderer \in [hdr_enabled : BOOLEAN, has_render_shadow_pass : BOOLEAN,
                   stats : {[draw_calls |-> 0, triangles |-> 0, lights_processed |-> 0]}]
  /\ frame = NoFrame

(***************************************************************************)
(* HDRRenderer construction and its OpenGL resources                       *)
(* (hdr_graphics.py 870-923, 977-1239)                                     *)
(***************************************************************************)
\* the programs _load_shaders builds, in order
ShaderNames ==
  <<"pbr", "lighting", "skybox", "shadow_map", "post", "bloom", "ssao",
    "tone_mapping", "debug">>

\* what the GL reports while a ShaderProgram is built: at most one program
\* fails, at the compile of its vertex or fragment shader or at the link
NoFailure == [program |-> "None", stage |-> "None"]
ShaderFailures ==
  {NoFailure}
    \cup [program : {ShaderNames[i] : i \in DOMAIN ShaderNames},
          stage : {"vertex", "fragment", "link"}]

\* an OpenGL object: gen counts the _init_framebuffers call that made it
GLObject(kind, owner, part, w, h, gen) ==
  [kind |-> kind, owner |-> owner, part |-> part, w |-> w, h |-> h, gen |-> gen]

\* _compile_shader: the shader object, deleted again when the compile fails
_compile_shader(name, stage, failure) ==
  LET shader == GLObject("shader", name, stage, 0, 0, 0)
      failed == failure.program = name /\ failure.stage = stage
  IN [raised |-> failed, objects |-> IF failed THEN {} ELSE {shader}]

\* ShaderProgram.__init__: whether it raised and the GL objects it leaves
ShaderProgram(name, failure) ==
  LET program == {GLObject("program", name, "program", 0, 0, 0)}
      vertex == _compile_shader(name, "vertex", failure)
      fragment == _compile_shader(name, "fragment", failure)
      linked == ~(failure.program = name /\ failure.stage = "link")
  IN IF vertex.raised
     THEN [raised |-> TRUE, objects |-> program]
     ELSE IF fragment.raised
     THEN [raised |-> TRUE, objects |-> program \cup vertex.objects]
     ELSE IF ~linked
     THEN \* glDeleteProgram, raise: the shaders are not deleted
          [raised |-> TRUE, objects |-> vertex.objects \cup fragment.objects]
     ELSE \* glDeleteShader(vertex), glDeleteShader(fragment)
          [raised |-> FALSE, objects |-> program]

\* _load_shaders, the programs from position i on; loaded are the names in
\* shader_programs so far
RECURSIVE LoadShadersFrom(_, _, _)
LoadShadersFrom(i, loaded, failure) ==
  IF i > Len(ShaderNames)
  THEN [raised |-> FALSE, shaders |-> loaded,
        objects |-> {GLObject("program", loaded[k], "program", 0, 0, 0) :
                       k \in DOMAIN loaded}]
  ELSE LET sp == ShaderProgram(ShaderNames[i], failure)
       IN IF sp.raised
          THEN \* except: shader.delete() for every entry of shader_programs
               [raised |-> TRUE, shaders |-> <<>>, objects |-> sp.objects]
          ELSE LoadShadersFrom(i + 1, Append(loaded, ShaderNames[i]), failure)

_load_shaders(failure) == LoadShadersFrom(1, <<>>, failure)

\* _create_gbuffer: framebuffer, three colour textures and the depth
\* renderbuffer; raises when the framebuffer is not complete
_create_gbuffer(width, height, gen, complete) ==
  [raised |-> ~complete,
   objects |->
     {GLObject("framebuffer", "g_buffer", "fbo", width, height, gen),
      GLObject("texture", "g_buffer", "gPosition", width, height, gen),
      GLObject("texture", "g_buffer", "gNormal", width, height, gen),
      GLObject("texture", "g_buffer", "gAlbedoSpec", width, height, gen),
      GLObject("renderbuffer", "g_buffer", "rbo", width, height, gen)}]

\* _create_hdr_framebuffer: framebuffer, colour texture, depth renderbuffer
_create_hdr_framebuffer(width, height, gen, complete) ==
  [raised |-> ~complete,
   objects |->
     {GLObject("framebuffer", "hdr_fbo", "fbo", width, height, gen),
      GLObject("texture", "hdr_fbo", "color_buffer", width, height, gen),
      GLObject("renderbuffer", "hdr_fbo", "rbo", width, height, gen)}]

\* _init_framebuffers: each attribute is assigned when its creation returns
_init_framebuffers(r, g_complete, h_complete) ==
  LET g == _create_gbuffer(r.width, r.height, r.gen, g_complete)
      h == _create_hdr_framebuffer(r.width, r.height, r.gen, h_complete)
  IN IF g.raised
     THEN [raised |-> TRUE, error |-> "G-buffer framebuffer not complete!",
           created |-> g.objects, r |-> r]
     ELSE IF h.raised
     THEN [raised |-> TRUE, error |-> "HDR framebuffer not complete!",
           created |-> g.objects \cup h.objects,
           r |-> [r EXCEPT !.g_buffer = g.objects]]
     ELSE [raised |-> FALSE, error |-> "None",
           created |-> g.objects \cup h.objects,
           r |-> [r EXCEPT !.g_buffer = g.objects, !.hdr_fbo = h.objects,
                           !.bloom_fbos = "_create_bloom_framebuffers()",
                           !.ssao_fbo = "_create_ssao_framebuffer()"]]

NoResize == [called |-> FALSE]

\* HDRRenderer.__init__(width, height)
HDRRendererInit(width, height, failure, g_complete, h_complete) ==
  LET self == [state |-> "constructing", width |-> width, height |-> height,
               shaders |-> <<>>, g_buffer |-> {}, hdr_fbo |-> {},
               bloom_fbos |-> "None", ssao_fbo |-> "None",
               steps |-> <<"_init_opengl", "_load_shaders">>,
               error |-> "None", gen |-> 0, resize |-> NoResize]
      ls == _load_shaders(failure)
      fb == _init_framebuffers([self EXCEPT !.shaders = ls.shaders],
                               g_complete, h_complete)
  IN /\ hdr.state = "unconstructed"
     /\ IF ls.raised
        THEN /\ hdr' = [self EXCEPT !.state = "failed",
                                    !.error = "Failed to load shaders"]
             /\ gl_objects' = ls.objects
        ELSE IF fb.raised
        THEN /\ hdr' = [fb.r EXCEPT !.state = "failed", !.error = fb.error,
                                    !.steps = Append(@, "_init_framebuffers")]
             /\ gl_objects' = ls.objects \cup fb.created
        ELSE /\ hdr' = [fb.r EXCEPT !.state = "ready",
                          !.steps = @ \o <<"_init_framebuffers",
                                           "_init_render_passes",
                                           "_init_default_resources">>]
             /\ gl_objects' = ls.objects \cup fb.created
     /\ UNCHANGED <<atmosphere_vars, pp_vars, render_vars, shadow_vars,
                    option_vars, tonemap_vars, late_vars>>

\* the class has no resize method; its size-dependent resources are made by
\* _init_framebuffers from self.width and self.height, so a resize stores
\* the new size and runs _init_framebuffers again
Resize(width, height, g_complete, h_complete) ==
  LET before == [width |-> hdr.width, height |-> hdr.height,
                 g_buffer |-> hdr.g_buffer, hdr_fbo |-> hdr.hdr_fbo]
      fb == _init_framebuffers([hdr EXCEPT !.width = width, !.height = height,
                                           !.gen = @ + 1],
                               g_complete, h_complete)
  IN /\ hdr.state = "ready"
     /\ hdr.gen < MaxResizes
     /\ hdr' = [fb.r EXCEPT !.error = fb.error,
                            !.resize = [called |-> TRUE, raised |-> fb.raised,
                                        before |-> before]]
     /\ gl_objects' = gl_objects \cup fb.created
     /\ UNCHANGED <<atmosphere_vars, pp_vars, render_vars, shadow_vars,
                    option_vars, tonemap_vars, late_vars>>

HDRRendererInitStep ==
  \E width \in 1..MaxSize, height \in 1..MaxSize, failure \in ShaderFailures,
     g_complete \in BOOLEAN, h_complete \in BOOLEAN :
    HDRRendererInit(width, height, failure, g_complete, h_complete)
ResizeStep ==
  \E width \in 1..MaxSize, height \in 1..MaxSize,
     g_complete \in BOOLEAN, h_complete \in BOOLEAN :
    Resize(width, height, g_complete, h_complete)

NextResources == HDRRendererInitStep \/ ResizeStep

(***************************************************************************)
(* Function tables shared by the fragment shaders: values in thousandths   *)
(***************************************************************************)
\* exp(-n / 10) in thousandths, n = 0..80; smaller values round to 0
ExpNegTable ==
  <<1000, 905, 819, 741, 670, 607, 549, 497, 449, 407, 368, 333, 301, 273,
    247, 223, 202, 183, 165, 150, 135, 122, 111, 100, 91, 82, 74, 67, 61,
    55, 50, 45, 41, 37, 33, 30, 27, 25, 22, 20, 18, 17, 15, 14, 12, 11,
    10, 9, 8, 7, 7, 6, 6, 5, 5, 4, 4, 3, 3, 3, 2, 2, 2, 2, 2, 2, 1, 1, 1,
    1, 1, 1, 1, 1, 1, 1, 1, 0, 0, 0, 0>>

exp_neg(n) == IF n + 1 > Len(ExpNegTable) THEN 0 ELSE ExpNegTable[n + 1]

\* (i / 100) ^ (1 / 2.2) in thousandths, i = 0..100
GammaTable ==
  <<0, 123, 169, 203, 232, 256, 278, 299, 317, 335, 351, 367, 381, 396,
    409, 422, 435, 447, 459, 470, 481, 492, 502, 513, 523, 533, 542, 551,
    561, 570, 579, 587, 596, 604, 612, 621, 629, 636, 644, 652, 659, 667,
    674, 681, 689, 696, 703, 710, 716, 723, 730, 736, 743, 749, 756, 762,
    768, 775, 781, 787, 793, 799, 805, 811, 816, 822, 828, 834, 839, 845,
    850, 856, 861, 867, 872, 877, 883, 888, 893, 898, 904, 909, 914, 919,
    924, 929, 934, 939, 944, 948, 953, 958, 963, 968, 972, 977, 982, 986,
    991, 995, 1000>>

\* pow(x, 1.0 / 2.2) for x in 0..1000 thousandths, interpolated in the table
pow_gamma(x) ==
  LET i == x \div 10
      r == x % 10
  IN IF i + 1 >= Len(GammaTable) THEN GammaTable[Len(GammaTable)]
     ELSE GammaTable[i + 1] + ((GammaTable[i + 2] - GammaTable[i + 1]) * r) \div 10

clamp(x, lo, hi) == IF x < lo THEN lo ELSE IF x > hi THEN hi ELSE x

(***************************************************************************)
(* Light shadow maps (hdr_graphics.py 182-221) and the shadow lookup of    *)
(* the lighting fragment shader (shaders.py 186-208, 253-287, 347-372)     *)
(***************************************************************************)
\* uniform sampler2D u_ShadowMaps[4]
ShadowPoolSize == 4

\* Light(casts_shadows=...): _shadow_map is None (0) until get_shadow_map
NewLight(casts_shadows) == [casts_shadows |-> casts_shadows, _shadow_map |-> 0]

\* Light.get_shadow_map(ctx, index): the light creates its own depth texture
\* on first use and keeps it; index is not used; handle is the texture the
\* context returns
get_shadow_map(light, handle) ==
  IF light._shadow_map = 0 THEN [light EXCEPT !._shadow_map = handle] ELSE light

\* Light.get_light_data(): the entries the shadow lookup reads
get_light_data(light) == [shadow_map_index |-> 0, ies_texture_index |-> -1]

\* HDRRenderer.add_light
AddLight(casts_shadows) ==
  /\ Len(lights) < MaxLights
  /\ lights' = Append(lights, NewLight(casts_shadows))
  /\ UNCHANGED <<atmosphere_vars, pp_vars, render_vars, shading, ext_vars,
                 late_vars>>

\* light.get_shadow_map(ctx)
GetShadowMap(i) ==
  /\ lights[i]._shadow_map = 0
  /\ lights' = [lights EXCEPT ![i] = get_shadow_map(@, i)]
  /\ UNCHANGED <<atmosphere_vars, pp_vars, render_vars, shading, ext_vars,
                 late_vars>>

AddLightStep == \E c \in BOOLEAN : AddLight(c)
GetShadowMapStep == \E i \in DOMAIN lights : GetShadowMap(i)

NextShadow == AddLightStep \/ GetShadowMapStep

\* struct Light of the lighting shader: the fields the shadow lookup reads
ShaderLights == [castShadows : BOOLEAN, shadowMapIndex : -1..ShadowPoolSize]

\* what the 3x3 PCF taps of a bound shadow map give for the shaded fragment:
\* taps is the number of taps with currentDepth - bias > pcfDepth,
\* beyond_far is projCoords.z > 1.0
ShadowSamples ==
  {[taps |-> 0, beyond_far |-> FALSE], [taps |-> 4, beyond_far |-> FALSE],
   [taps |-> 9, beyond_far |-> FALSE], [taps |-> 9, beyond_far |-> TRUE]}

\* CalculateShadow: the shadow factor in ninths
CalculateShadow(shadowMap) == IF shadowMap.beyond_far THEN 0 ELSE shadowMap.taps

\* a plausible slip: the lookup is gated on the slot index alone
shadow_lookup_any_light(light, num_shadow_maps) ==
  light.shadowMapIndex >= 0 /\ light.shadowMapIndex < num_shadow_maps

\* shaders.py line 349: the condition of the shadow lookup
shadow_lookup(light, num_shadow_maps) ==
  light.castShadows /\ light.shadowMapIndex >= 0
    /\ light.shadowMapIndex < num_shadow_maps

\* main, lines 347-352, for one light: the slot sampled (-1: none) and the
\* shadow factor in ninths
ShadeLight(light, num_shadow_maps, shadowMaps) ==
  IF shadow_lookup(light, num_shadow_maps)
  THEN [sampled |-> light.shadowMapIndex,
        shadow |-> CalculateShadow(shadowMaps[light.shadowMapIndex + 1])]
  ELSE [sampled |-> -1, shadow |-> 0]

\* main, line 372, for one light: what the light adds to Lo, in thousandths;
\* unshadowed is (kD * albedo / PI + specular) * radiance * NdotL, and the
\* light is white, so one number stands for the three channels
LightContribution(light, num_shadow_maps, shadowMaps, unshadowed) ==
  (unshadowed * (9 - ShadeLight(light, num_shadow_maps, shadowMaps).shadow))
    \div 9

\* main, line 376: vec3 ambient = vec3(0.03) * albedo * ao, with ao = 1.0
Ambient(albedo) == (30 * albedo) \div 1000

RECURSIVE SumSeq(_)
SumSeq(q) == IF q = <<>> THEN 0 ELSE Head(q) + SumSeq(Tail(q))

\* main, lines 378-387: the colour written to FragColor for the linear
\* radiance color = ambient + Lo (thousandths):
\*   color = color / (color + vec3(1.0)); color = pow(color, vec3(1.0/2.2))
LightingFragColor(color) == pow_gamma((color * 1000) \div (color + 1000))

\* the G-buffer albedo and the unshadowed term of a light, in thousandths
AlbedoValues == {0, 1000}
UnshadowedValues == {0, 900}

NoShading == [rendered |-> FALSE]

\* one fragment is shaded: the loop over u_Lights[0 .. u_NumLights-1], the
\* ambient term and the final colour
ShadeFragment(u_Lights, u_NumShadowMaps, sample, albedo, unshadowed) ==
  LET u_ShadowMaps == [k \in 1..ShadowPoolSize |-> sample]
      contributions == [i \in DOMAIN u_Lights |->
                          LightContribution(u_Lights[i], u_NumShadowMaps,
                                            u_ShadowMaps, unshadowed)]
      color == Ambient(albedo) + SumSeq(contributions)
  IN /\ ~shading.rendered
     /\ shading' = [rendered |-> TRUE, u_Lights |-> u_Lights,
                    u_NumShadowMaps |-> u_NumShadowMaps,
                    u_ShadowMaps |-> u_ShadowMaps,
                    albedo |-> albedo, unshadowed |-> unshadowed,
                    per_light |-> [i \in DOMAIN u_Lights |->
                                     ShadeLight(u_Lights[i], u_NumShadowMaps,
                                                u_ShadowMaps)],
                    contributions |-> contributions,
                    ambient |-> Ambient(albedo),
                    color |-> color,
                    FragColor |-> LightingFragColor(color)]
     /\ UNCHANGED <<atmosphere_vars, pp_vars, render_vars, lights, ext_vars,
                    late_vars>>

\* the next fragment
NextFragment ==
  /\ shading.rendered
  /\ shading' = NoShading
  /\ UNCHANGED <<atmosphere_vars, pp_vars, render_vars, lights, ext_vars,
                 late_vars>>

ShadeFragmentStep ==
  /\ ~shading.rendered
  /\ \E u_Lights \in SeqUpTo(ShaderLights, MaxShaderLights) \ {<<>>},
        n \in 0..ShadowPoolSize, sample \in ShadowSamples,
        albedo \in AlbedoValues, unshadowed \in UnshadowedValues :
       ShadeFragment(u_Lights, n, sample, albedo, unshadowed)

NextShading == ShadeFragmentStep \/ NextFragment

(***************************************************************************)
(* Tone mapping fragment shader (shaders.py 496-552).  Floats are fixed    *)
(* point: a colour channel read from u_HDRBuffer is in tenths, u_Exposure  *)
(* is a whole number, and every value after the first matrix product is in *)
(* thousandths.  Divisions round towards minus infinity.                   *)
(***************************************************************************)
\* mat3(...) fills column by column: ACESInputMat[j] is column j, times 10^5
ACESInputMat ==
  << <<59719, 35458, 4823>>, <<7600, 90834, 1566>>, <<2840, 13383, 83777>> >>

\* ACESOutputMat[j] is column j, times 10^5
ACESOutputMat ==
  << <<160475, -53108, -7367>>, <<-10208, 110813, -605>>,
     <<-327, -7276, 107602>> >>

\* a / b in thousandths for b > 0, by long division
Quotient(a, b) ==
  LET q0 == a \div b
      r0 == a % b
      d1 == (r0 * 10) \div b
      r1 == (r0 * 10) % b
      d2 == (r1 * 10) \div b
      r2 == (r1 * 10) % b
      d3 == (r2 * 10) \div b
  IN q0 * 1000 + d1 * 100 + d2 * 10 + d3

\* one component of RRTAndODTFit: v in thousandths, a and b in millionths
\*   a = v * (v + 0.0245786) - 0.000090537
\*   b = v * (0.983729 * v + 0.4329510) + 0.238081
RRTAndODTFit(v) ==
  LET vv == v * v
      a == vv + (24579 * v) \div 1000 - 91
      b == vv - 163 * (vv \div 10000) + 433 * v - (49 * v) \div 1000 + 238081
      d == b \div 200000000 + 1
  IN Quotient(a \div d, b \div d)

\* color * ACESInputMat is the row vector times the matrix (component j is
\* the dot product with column j); ACESOutputMat * color is the matrix times
\* the column vector (the sum of the columns weighted by the components)
ACESFitted(color) ==
  LET c1 == [j \in 1..3 |->
               (color[1] * ACESInputMat[j][1] + color[2] * ACESInputMat[j][2]
                + color[3] * ACESInputMat[j][3]) \div 1000]
      c2 == [j \in 1..3 |-> RRTAndODTFit(c1[j])]
      c3 == [i \in 1..3 |->
               (ACESOutputMat[1][i] * c2[1] + ACESOutputMat[2][i] * c2[2]
                + ACESOutputMat[3][i] * c2[3]) \div 100000]
  IN [i \in 1..3 |-> clamp(c3[i], 0, 1000)]

\* vec3(1.0) - exp(-hdrColor * u_Exposure), the exposed colour in tenths
Reinhard_without_complement(color) == [i \in 1..3 |-> exp_neg(color[i])]
Reinhard(color) == [i \in 1..3 |-> 1000 - exp_neg(color[i])]

\* main(): FragColor.rgb for the sampled hdrColor
ToneMapMain(hdrColor, u_Exposure, u_UseACES) ==
  LET exposed == [i \in 1..3 |-> hdrColor[i] * u_Exposure]
      mapped == IF u_UseACES THEN ACESFitted(exposed) ELSE Reinhard(exposed)
  IN [i \in 1..3 |-> pow_gamma(mapped[i])]

\* the channel values of u_HDRBuffer (tenths) and the exposures tried
HDRChannelValues == {0, 5, 10, 20, 40}
ExposureChoices == {1, 2, 4, 8}

NoToneMap == [called |-> FALSE]

\* one fragment of the tone mapping pass
ToneMapFragment(hdrColor, u_Exposure, u_UseACES) ==
  /\ ~tonemap.called
  /\ tonemap' = [called |-> TRUE, hdrColor |-> hdrColor,
                 u_Exposure |-> u_Exposure, u_UseACES |-> u_UseACES,
                 FragColor |-> ToneMapMain(hdrColor, u_Exposure, u_UseACES)]
  /\ UNCHANGED <<atmosphere_vars, pp_vars, render_vars, shadow_vars,
                 option_vars, resource_vars, late_vars>>

\* the next fragment
NextToneMapFragment ==
  /\ tonemap.called
  /\ tonemap' = NoToneMap
  /\ UNCHANGED <<atmosphere_vars, pp_vars, render_vars, shadow_vars,
                 option_vars, resource_vars, late_vars>>

ToneMapFragmentStep ==
  /\ ~tonemap.called
  /\ \E r \in HDRChannelValues, g \in HDRChannelValues, b \in HDRChannelValues,
        u_Exposure \in ExposureChoices, u_UseACES \in BOOLEAN :
       ToneMapFragment(<<r, g, b>>, u_Exposure, u_UseACES)

NextToneMap == ToneMapFragmentStep \/ NextToneMapFragment

(***************************************************************************)
(* The moderngl method set of HDRRenderer (hdr_graphics.py 1616-1856):     *)
(* _create_framebuffers, render_scene, _apply_post_processing and          *)
(* _apply_bloom, one blur pass per step                                    *)
(***************************************************************************)
\* for i in range(10):  # Number of blur passes
BlurPasses == 10

\* the textures _create_framebuffers makes; "none" is no texture at all
ModernTextures ==
  {"none", "hdr_color", "depth_buffer", "bloom_textures[0]",
   "bloom_textures[1]", "pingpong_textures[0]", "pingpong_textures[1]"}

\* pingpong_fbos[i] is built with color_attachments=[pingpong_textures[i]],
\* and a bool indexes the list as 0 or 1
pingpong_fbos(horizontal) ==
  IF horizontal THEN [fbo |-> "pingpong_fbos[1]", tex |-> "pingpong_textures[1]"]
  ELSE [fbo |-> "pingpong_fbos[0]", tex |-> "pingpong_textures[0]"]

BloomIdle == [pc |-> "idle"]

\* render_scene(scene, camera) up to the blur loop of _apply_bloom.  The blur
\* shader samples "uniform sampler2D image"; no method binds a texture or
\* sets the sampler, so it reads what texture unit 0 holds at the call
ModernRenderScene(n_objects, bloom_enabled, unit0) ==
  /\ bloom.pc = "idle"
  /\ bloom' = IF bloom_enabled
              THEN [pc |-> "blur", unit0 |-> unit0, objects |-> n_objects,
                    bloom_enabled |-> TRUE, fbo |-> "bloom_fbo", i |-> 0,
                    horizontal |-> TRUE, passes |-> <<>>, copied |-> FALSE]
              ELSE [pc |-> "done", unit0 |-> unit0, objects |-> n_objects,
                    bloom_enabled |-> FALSE, fbo |-> "screen", i |-> 0,
                    horizontal |-> TRUE, passes |-> <<>>, copied |-> TRUE]
  /\ UNCHANGED <<atmosphere_vars, pp_vars, render_vars, shadow_vars, ext_vars,
                 scene_vars, input_vars, camera_vars>>

\* one iteration of the blur loop
BlurPass ==
  /\ bloom.pc = "blur"
  /\ bloom.i < BlurPasses
  /\ bloom' = [bloom EXCEPT
                 !.fbo = pingpong_fbos(bloom.horizontal).fbo,
                 !.passes = Append(@, [read |-> bloom.unit0,
                                       write |-> pingpong_fbos(bloom.horizontal).tex,
                                       horizontal |-> bloom.horizontal]),
                 !.horizontal = ~@,
                 !.i = @ + 1]
  /\ UNCHANGED <<atmosphere_vars, pp_vars, render_vars, shadow_vars, ext_vars,
                 scene_vars, input_vars, camera_vars>>

\* after the loop: the combine step, then render_scene's copy to the screen
BloomCombine ==
  /\ bloom.pc = "blur"
  /\ bloom.i = BlurPasses
  /\ bloom' = [bloom EXCEPT !.pc = "done", !.fbo = "screen", !.copied = TRUE]
  /\ UNCHANGED <<atmosphere_vars, pp_vars, render_vars, shadow_vars, ext_vars,
                 scene_vars, input_vars, camera_vars>>

\* the next frame
NextModernFrame ==
  /\ bloom.pc = "done"
  /\ bloom' = BloomIdle
  /\ UNCHANGED <<atmosphere_vars, pp_vars, render_vars, shadow_vars, ext_vars,
                 scene_vars, input_vars, camera_vars>>

ModernRenderSceneStep ==
  \E n_objects \in 0..MaxObjects, bloom_enabled \in BOOLEAN,
     unit0 \in ModernTextures :
    ModernRenderScene(n_objects, bloom_enabled, unit0)

NextBloom ==
  ModernRenderSceneStep \/ BlurPass \/ BloomCombine \/ NextModernFrame

(***************************************************************************)
(* Scene (core/scene.py) and the life cycle of its game objects            *)
(* (core/game_object.py)                                                   *)
(***************************************************************************)
GameObjects == 1..MaxGameObjects

Contains(q, o) == \E k \in DOMAIN q : q[k] = o

\* list.remove(o): the first occurrence is taken out
RECURSIVE ListRemove(_, _)
ListRemove(q, o) ==
  IF q = <<>> THEN <<>>
  ELSE IF Head(q) = o THEN Tail(q)
  ELSE <<Head(q)>> \o ListRemove(Tail(q), o)

\* GameObject.__init__: initialized = False; starts, updated, destroyed and
\* update_before_start record the calls of start(), update() and on_destroy()
NewGameObject ==
  [initialized |-> FALSE, starts |-> 0, updated |-> FALSE,
   update_before_start |-> FALSE, destroyed |-> FALSE]

\* Scene.__init__
NewScene ==
  [game_objects |-> <<>>, _game_objects_to_add |-> <<>>,
   _game_objects_to_remove |-> <<>>,
   objects |-> [o \in GameObjects |-> NewGameObject],
   last_op |-> "none", last_updated |-> <<>>]

\* a plausible slip: the object is put into the list at the call
add_game_object_at_once(s, o) ==
  [s EXCEPT !.game_objects = Append(@, o), !.last_op = "add"]

\* Scene.add_game_object
add_game_object(s, o) ==
  [s EXCEPT !._game_objects_to_add = Append(@, o), !.last_op = "add"]

\* Scene.remove_game_object
remove_game_object(s, o) ==
  [s EXCEPT !._game_objects_to_remove = Append(@, o), !.last_op = "remove"]

\* a plausible slip: the membership test of the first loop is left out
RECURSIVE add_pending_unchecked(_, _)
add_pending_unchecked(s, queue) ==
  IF queue = <<>> THEN s
  ELSE LET o == Head(queue)
           s1 == [s EXCEPT
                    !.game_objects = Append(@, o),
                    !.objects[o] =
                      IF ~@.initialized
                      THEN [@ EXCEPT !.starts = @ + 1, !.initialized = TRUE]
                      ELSE @]
       IN add_pending_unchecked(s1, Tail(queue))

\* Scene.update, lines 47-52: the loop over _game_objects_to_add
RECURSIVE add_pending(_, _)
add_pending(s, queue) ==
  IF queue = <<>> THEN s
  ELSE LET o == Head(queue)
           s1 == IF ~Contains(s.game_objects, o)
                 THEN [s EXCEPT
                         !.game_objects = Append(@, o),
                         !.objects[o] =
                           IF ~@.initialized
                           THEN [@ EXCEPT !.starts = @ + 1,
                                          !.initialized = TRUE]
                           ELSE @]
                 ELSE s
       IN add_pending(s1, Tail(queue))

\* Scene.update, lines 56-60: the loop over _game_objects_to_remove
RECURSIVE remove_pending(_, _)
remove_pending(s, queue) ==
  IF queue = <<>> THEN s
  ELSE LET o == Head(queue)
           s1 == IF Contains(s.game_objects, o)
                 THEN [s EXCEPT !.objects[o].destroyed = TRUE,
                                !.game_objects = ListRemove(@, o)]
                 ELSE s
       IN remove_pending(s1, Tail(queue))

\* Scene.update, lines 64-66: update(delta_time) of every object in the list
RECURSIVE update_all(_, _)
update_all(s, q) ==
  IF q = <<>> THEN s
  ELSE LET o == Head(q)
       IN update_all([s EXCEPT
                        !.objects[o].updated = TRUE,
                        !.objects[o].update_before_start =
                          @ \/ s.objects[o].starts = 0,
                        !.last_updated = Append(@, o)],
                      Tail(q))

\* Scene.update(delta_time)
scene_update(s) ==
  LET s1 == [add_pending(s, s._game_objects_to_add)
               EXCEPT !._game_objects_to_add = <<>>]
      s2 == [remove_pending(s1, s1._game_objects_to_remove)
               EXCEPT !._game_objects_to_remove = <<>>]
  IN update_all([s2 EXCEPT !.last_op = "update", !.last_updated = <<>>],
                s2.game_objects)

AddGameObject(o) ==
  /\ Len(game_scene._game_objects_to_add) < MaxPending
  /\ game_scene' = add_game_object(game_scene, o)
  /\ UNCHANGED <<atmosphere_vars, pp_vars, render_vars, shadow_vars, ext_vars,
                 bloom_vars, input_vars, camera_vars>>

RemoveGameObject(o) ==
  /\ Len(game_scene._game_objects_to_remove) < MaxPending
  /\ game_scene' = remove_game_object(game_scene, o)
  /\ UNCHANGED <<atmosphere_vars, pp_vars, render_vars, shadow_vars, ext_vars,
                 bloom_vars, input_vars, camera_vars>>

SceneUpdate ==
  /\ game_scene' = scene_update(game_scene)
  /\ UNCHANGED <<atmosphere_vars, pp_vars, render_vars, shadow_vars, ext_vars,
                 bloom_vars, input_vars, camera_vars>>

AddGameObjectStep == \E o \in GameObjects : AddGameObject(o)
RemoveGameObjectStep == \E o \in GameObjects : RemoveGameObject(o)

NextScene == AddGameObjectStep \/ RemoveGameObjectStep \/ SceneUpdate

(***************************************************************************)
(* Input handling (input/__init__.py): key handler registration and        *)
(* _handle_event.  Only on_key_press and on_key_up register handlers here, *)
(* so _mouse_handlers stays empty.                                         *)
(***************************************************************************)
Keys == {"K_SPACE", "K_ESCAPE"}
MouseButtons == {1, 3}
MousePositions == {<<0, 0>>, <<3, 4>>}

\* a registered handler is the lambda its registration built:
\*   "press": lambda e: callback()
\*   "up":    lambda e: callback() if e.type == pygame.KEYUP else None
HandlerKinds == {"press", "up"}

\* whether handler(event) calls its callback
handler_calls_back(kind, event_type) ==
  IF kind = "press" THEN TRUE ELSE event_type = "KEYUP"

InputInit ==
  [_key_handlers |-> [k \in Keys |-> <<>>],
   _key_state |-> [k \in Keys |-> FALSE],
   _mouse_state |-> [b \in MouseButtons |-> FALSE],
   _mouse_pos |-> <<0, 0>>,
   event |-> [type |-> "none"]]

\* on_key_press(key, callback) and on_key_up(key, callback)
register_key_handler(im, key, kind) ==
  [im EXCEPT !._key_handlers[key] = Append(@, kind)]

\* the handlers of the key, in order, whose callback the event reaches
CallbacksRun(im, key, event_type) ==
  SelectSeq([i \in DOMAIN im._key_handlers[key] |-> i],
            LAMBDA i : handler_calls_back(im._key_handlers[key][i], event_type))

\* _handle_event(event) for a keyboard event
handle_key_event(im, event_type, key) ==
  [im EXCEPT !._key_state[key] = (event_type = "KEYDOWN"),
             !.event = [type |-> event_type, key |-> key,
                        callbacks |-> CallbacksRun(im, key, event_type)]]

\* _handle_event(event) for a mouse button event or a mouse motion
handle_mouse_event(im, event_type, button, pos) ==
  IF event_type = "MOUSEMOTION"
  THEN [im EXCEPT !._mouse_pos = pos,
                  !.event = [type |-> event_type, callbacks |-> <<>>]]
  ELSE [im EXCEPT !._mouse_state[button] = (event_type = "MOUSEBUTTONDOWN"),
                  !.event = [type |-> event_type, button |-> button,
                             callbacks |-> <<>>]]

OnKeyPress(key) ==
  /\ Len(input_manager._key_handlers[key]) < MaxHandlers
  /\ input_manager' = register_key_handler(input_manager, key, "press")
  /\ UNCHANGED <<atmosphere_vars, pp_vars, render_vars, shadow_vars, ext_vars,
                 bloom_vars, scene_vars, camera_vars>>

OnKeyUp(key) ==
  /\ Len(input_manager._key_handlers[key]) < MaxHandlers
  /\ input_manager' = register_key_handler(input_manager, key, "up")
  /\ UNCHANGED <<atmosphere_vars, pp_vars, render_vars, shadow_vars, ext_vars,
                 bloom_vars, scene_vars, camera_vars>>

HandleKeyEvent(event_type, key) ==
  /\ input_manager' = handle_key_event(input_manager, event_type, key)
  /\ UNCHANGED <<atmosphere_vars, pp_vars, render_vars, shadow_vars, ext_vars,
                 bloom_vars, scene_vars, camera_vars>>

HandleMouseEvent(event_type, button, pos) ==
  /\ input_manager' = handle_mouse_event(input_manager, event_type, button, pos)
  /\ UNCHANGED <<atmosphere_vars, pp_vars, render_vars, shadow_vars, ext_vars,
                 bloom_vars, scene_vars, camera_vars>>

OnKeyPressStep == \E key \in Keys : OnKeyPress(key)
OnKeyUpStep == \E key \in Keys : OnKeyUp(key)
HandleKeyEventStep ==
  \E event_type \in {"KEYDOWN", "KEYUP"}, key \in Keys :
    HandleKeyEvent(event_type, key)
HandleMouseEventStep ==
  \E event_type \in {"MOUSEBUTTONDOWN", "MOUSEBUTTONUP", "MOUSEMOTION"},
     button \in MouseButtons, pos \in MousePositions :
    HandleMouseEvent(event_type, button, pos)

NextInput ==
  OnKeyPressStep \/ OnKeyUpStep \/ HandleKeyEventStep \/ HandleMouseEventStep

(***************************************************************************)
(* Camera zoom (camera.py 10-29, 67-81); zoom values are in tenths         *)
(***************************************************************************)
\* Camera.__init__: zoom = 1.0, min_zoom = 0.1, max_zoom = 4.0, zoom_speed = 0.1
InitialZoom == 10
MinZoom == 1
MaxZoom == 40
ZoomSpeed == 1

CameraInit ==
  [zoom |-> InitialZoom, min_zoom |-> MinZoom, max_zoom |-> MaxZoom,
   zoom_speed |-> ZoomSpeed, last_op |-> "none"]

\* Camera.zoom_in(amount); is_none is "amount is None"
zoom_in(c, amount, is_none) ==
  LET a == IF is_none THEN c.zoom_speed ELSE amount
  IN [c EXCEPT !.zoom = Min(c.zoom + a, c.max_zoom), !.last_op = "zoom_in"]

\* Camera.zoom_out(amount)
zoom_out(c, amount, is_none) ==
  LET a == IF is_none THEN c.zoom_speed ELSE amount
  IN [c EXCEPT !.zoom = Max(c.zoom - a, c.min_zoom), !.last_op = "zoom_out"]

\* Camera.set_zoom(value): pygame.math.clamp(value, min_zoom, max_zoom)
set_zoom(c, value) ==
  [c EXCEPT !.zoom = clamp(value, c.min_zoom, c.max_zoom),
            !.last_op = "set_zoom"]

\* the amounts and values the application passes
ZoomAmounts == {-15, -1, 0, 1, 15}
ZoomValues == {-5, 0, 10, 25, 50}

\* the zoom levels explored
ZoomExplored(c) == c.zoom >= -MaxZoomExplored /\ c.zoom <= MaxZoomExplored

ZoomIn(amount, is_none) ==
  /\ ZoomExplored(zoom_in(game_camera, amount, is_none))
  /\ game_camera' = zoom_in(game_camera, amount, is_none)
  /\ UNCHANGED <<atmosphere_vars, pp_vars, render_vars, shadow_vars, ext_vars,
                 bloom_vars, scene_vars, input_vars>>

ZoomOut(amount, is_none) ==
  /\ ZoomExplored(zoom_out(game_camera, amount, is_none))
  /\ game_camera' = zoom_out(game_camera, amount, is_none)
  /\ UNCHANGED <<atmosphere_vars, pp_vars, render_vars, shadow_vars, ext_vars,
                 bloom_vars, scene_vars, input_vars>>

SetZoom(value) ==
  /\ game_camera' = set_zoom(game_camera, value)
  /\ UNCHANGED <<atmosphere_vars, pp_vars, render_vars, shadow_vars, ext_vars,
                 bloom_vars, scene_vars, input_vars>>

ZoomInStep == \E amount \in ZoomAmounts, is_none \in BOOLEAN : ZoomIn(amount, is_none)
ZoomOutStep == \E amount \in ZoomAmounts, is_none \in BOOLEAN : ZoomOut(amount, is_none)
SetZoomStep == \E value \in ZoomValues : SetZoom(value)

NextCamera == ZoomInStep \/ ZoomOutStep \/ SetZoomStep

ShadowInit ==
  /\ lights = <<>>
  /\ shading = NoShading

Init ==
  /\ atmosphere = AtmosphereInit
  /\ PostInit
  /\ RenderInit
  /\ ShadowInit
  /\ pp_set = NoOptionWrite
  /\ gl_objects = {}
  /\ hdr = [state |-> "unconstructed"]
  /\ tonemap = NoToneMap
  /\ bloom = BloomIdle
  /\ game_scene = NewScene
  /\ input_manager = InputInit
  /\ game_camera = CameraInit

Next ==
  \/ NextAtmosphere \/ NextPost \/ NextRender \/ NextShadow \/ NextShading
  \/ NextOptions \/ NextResources \/ NextToneMap
  \/ NextBloom \/ NextScene \/ NextInput \/ NextCamera

Spec == Init /\ [][Next]_vars

\* the renderer as HDRRenderer(width, height) builds it: hdr_enabled defaults
\* to True and the class defines no _render_shadow_pass
InitDefaultRenderer ==
  /\ Init
  /\ renderer.hdr_enabled
  /\ ~renderer.has_render_shadow_pass

SpecAtmosphere == InitDefaultRenderer /\ [][NextAtmosphere]_vars

SpecPost == InitDefaultRenderer /\ [][NextPost]_vars

SpecRender == Init /\ [][NextRender]_vars

SpecShadow == InitDefaultRenderer /\ [][NextShadow]_vars

SpecShading == InitDefaultRenderer /\ [][NextShading]_vars

SpecOptions == InitDefaultRenderer /\ [][NextOptions]_vars

SpecResources == InitDefaultRenderer /\ [][NextResources]_vars

SpecToneMap == InitDefaultRenderer /\ [][NextToneMap]_vars

SpecBloom == InitDefaultRenderer /\ [][NextBloom]_vars

SpecScene == InitDefaultRenderer /\ [][NextScene]_vars

SpecInput == InitDefaultRenderer /\ [][NextInput]_vars

SpecCamera == InitDefaultRenderer /\ [][NextCamera]_vars

(***************************************************************************)
(* C1: rain and snow are never enabled together, for any sequence of       *)
(* update calls interleaved with changes of the cloud precipitation.       *)
(***************************************************************************)
RainSnowExclusive == ~(atmosphere.rain_enabled /\ atmosphere.snow_enabled)

\* an update has started precipitation while the clouds are above threshold
RainOrSnowActive ==
  /\ atmosphere.precipitation > PrecipitationThreshold
  /\ atmosphere.snow_enabled
  /\ atmosphere.snow_intensity > 0

(***************************************************************************)
(* C2: update(0) leaves the whole atmosphere state as it was, in every     *)
(* reachable state.                                                        *)
(***************************************************************************)
UpdateZeroIdentity ==
  \A s \in BOOLEAN : update(atmosphere, 0, s) = atmosphere

(***************************************************************************)
(* C3: whatever subset of effect flags is enabled, the stages that         *)
(* apply_effects invokes come in the fixed order SSAO, SSR, Bloom, DOF,    *)
(* Motion Blur, Lens Flares, Color Grading + Tone Mapping, Film Grain,     *)
(* Vignette, Chromatic Aberration, Sharpen, Anti-Aliasing.                 *)
(***************************************************************************)
StageOrder ==
  <<"ssao", "ssr", "bloom", "dof", "motion_blur", "lens_flares", "color_grading",
    "film_grain", "vignette", "chromatic_aberration", "sharpen", "anti_aliasing">>

StagePosition(stage) == CHOOSE i \in DOMAIN StageOrder : StageOrder[i] = stage

InvokedStages(steps) == SelectSeq(steps, LAMBDA r : r.invoked)

StageOrderFixed ==
  pp_call.called =>
    LET inv == InvokedStages(pp_call.out.steps)
    IN \A i, j \in DOMAIN inv :
         i < j => StagePosition(inv[i].stage) < StagePosition(inv[j].stage)

\* a call with SSR switched off in which bloom and tone mapping both ran
BloomAndToneMapWithoutSSR ==
  /\ pp_call.called
  /\ ~pp_enabled["ssr"]
  /\ \E i, j \in DOMAIN pp_call.out.steps :
       /\ pp_call.out.steps[i].invoked /\ pp_call.out.steps[i].stage = "bloom"
       /\ pp_call.out.steps[j].invoked /\ pp_call.out.steps[j].stage = "color_grading"

(***************************************************************************)
(* C4: every stage whose flag is off is a pass-through: its method is not  *)
(* invoked and the current target after the stage is the target before it; *)
(* this includes Color Grading + Tone Mapping when tone_mapping and        *)
(* color_grading are both off.                                             *)
(***************************************************************************)
StageFlag(enabled, stage) ==
  CASE stage = "color_grading" -> enabled["tone_mapping"] \/ enabled["color_grading"]
    [] stage = "anti_aliasing" -> enabled["taa"] \/ enabled["fxaa"]
    [] OTHER -> enabled[stage]

DisabledStagesPassThrough ==
  pp_call.called =>
    \A i \in DOMAIN pp_call.out.steps :
      LET r == pp_call.out.steps[i]
      IN ~StageFlag(pp_enabled, r.stage) => (~r.invoked /\ r.after = r.before)

(***************************************************************************)
(* C5: with the bloom flag off, what apply_effects does and returns for a  *)
(* given input is the same for every value of the bloom parameters         *)
(* (threshold, intensity, radius, knee).                                   *)
(***************************************************************************)
BloomParamsIgnoredWhenDisabled ==
  (pp_call.called /\ ~pp_enabled["bloom"]) =>
    \A p \in BloomParamChoices :
      apply_effects(pp_enabled, p, pp_call.scene_texture, pp_call.velocity_texture)
        = pp_call.out

\* a call made with bloom off and bloom parameters other than the defaults
BloomOffWithChangedParams ==
  /\ pp_call.called
  /\ ~pp_enabled["bloom"]
  /\ pp_params.bloom_threshold # DefaultBloomParams.bloom_threshold
  /\ pp_params.bloom_intensity # DefaultBloomParams.bloom_intensity

(***************************************************************************)
(* C6: within every render_scene call the passes run in the order          *)
(* geometry, shadow, lighting, post-processing: a pass begins only after   *)
(* the pass before it has ended, and no pass runs twice or out of order.   *)
(***************************************************************************)
PassOrder == <<"geometry", "shadow", "lighting", "post_processing">>

PassPosition(name) == CHOOSE i \in DOMAIN PassOrder : PassOrder[i] = name

PassEvents(events) ==
  SelectSeq(events, LAMBDA e : \E i \in DOMAIN PassOrder : PassOrder[i] = e.pass)

AtmosphereUpdatedOncePerFrame ==
  frame.rendered =>
    LET upd == {k \in DOMAIN frame.events : frame.events[k].pass = "atmosphere.update"}
    IN /\ Cardinality(upd) = 1
       /\ \A k \in upd, l \in DOMAIN frame.events :
            frame.events[l].pass = "lighting" => k < l

(***************************************************************************)
(* C8: shadow-map slots are assigned deterministically: the first          *)
(* ShadowPoolSize lights with casts_shadows get slots, and the slot        *)
(* indices their light data carries are distinct values in                 *)
(* 0..ShadowPoolSize-1.                                                    *)
(***************************************************************************)
\* the shadow-casting lights, as positions in the light list, in order
Casters == {i \in DOMAIN lights : lights[i].casts_shadows}
CasterRank(i) == Cardinality({j \in Casters : j <= i})
WithinBudget == {i \in Casters : CasterRank(i) <= ShadowPoolSize}
SlotOf(i) == get_light_data(lights[i]).shadow_map_index

ShadowSlotsDistinct ==
  /\ \A i \in WithinBudget : SlotOf(i) \in 0..(ShadowPoolSize - 1)
  /\ \A i, j \in WithinBudget : i # j => SlotOf(i) # SlotOf(j)

(***************************************************************************)
(* C9: the shadow-map pool is bounded: never more than ShadowPoolSize      *)
(* shadow maps exist, and every shadow-casting light beyond the budget is  *)
(* shaded with shadow factor 0 when the whole pool is bound.               *)
(***************************************************************************)
ShadowMapsInUse == {lights[i]._shadow_map : i \in DOMAIN lights} \ {0}

ShadowPoolBounded ==
  /\ Cardinality(ShadowMapsInUse) <= ShadowPoolSize
  /\ \A i \in Casters \ WithinBudget : \A sample \in ShadowSamples :
       ShadeLight([castShadows |-> TRUE, shadowMapIndex |-> SlotOf(i)],
                  ShadowPoolSize,
                  [k \in 1..ShadowPoolSize |-> sample]).shadow = 0

(***************************************************************************)
(* C10: a light whose castShadows is false never has a shadow map sampled  *)
(* for it, and its shadow factor is 0, whatever slot index it carries and  *)
(* whatever is bound for the other lights.                                 *)
(***************************************************************************)
NoShadowForNonCasters ==
  shading.rendered =>
    \A i \in DOMAIN shading.u_Lights :
      ~shading.u_Lights[i].castShadows =>
        (shading.per_light[i].sampled = -1 /\ shading.per_light[i].shadow = 0)

\* a fragment where a light that casts no shadows carries the index of a
\* bound shadow map in which the fragment is occluded, and another light
\* is shadowed by it
ShadowedBesideNonCaster ==
  /\ shading.rendered
  /\ \E i, j \in DOMAIN shading.u_Lights :
       /\ ~shading.u_Lights[i].castShadows
       /\ shading.u_Lights[i].shadowMapIndex >= 0
       /\ shading.u_Lights[i].shadowMapIndex < shading.u_NumShadowMaps
       /\ shading.u_Lights[j].castShadows
       /\ shading.per_light[j].shadow > 0

(***************************************************************************)
(* C15: frame statistics are per frame: after any sequence of render_scene *)
(* calls, draw_calls is the number of objects of the last rendered scene   *)
(* that have a mesh and are visible and lights_processed is the number of  *)
(* its enabled lights; nothing is carried over from earlier frames.        *)
(***************************************************************************)
DrawnObjects(scene) ==
  {i \in DOMAIN scene.objects :
     scene.objects[i].has_mesh /\ scene.objects[i].visible}
EnabledLights(scene) == {i \in DOMAIN scene.lights : scene.lights[i].enabled}

TimeOfDayInRange ==
  atmosphere.time_of_day >= 0 /\ atmosphere.time_of_day < HoursPerDay

(***************************************************************************)
(* C17: an update with the cloud precipitation above the threshold and     *)
(* neither rain nor snow active leaves exactly one of them active; an      *)
(* update with the cloud precipitation below the threshold leaves both     *)
(* disabled.                                                               *)
(***************************************************************************)
IsUpdateStep ==
  \E dt \in DtChoices, s \in BOOLEAN : atmosphere' = update(atmosphere, dt, s)

WeatherTransitions ==
  [][IsUpdateStep =>
       /\ (atmosphere.precipitation > PrecipitationThreshold
           /\ ~atmosphere.rain_enabled /\ ~atmosphere.snow_enabled)
          => (atmosphere'.rain_enabled # atmosphere'.snow_enabled)
       /\ (atmosphere.precipitation < PrecipitationThreshold)
          => (~atmosphere'.rain_enabled /\ ~atmosphere'.snow_enabled)]_vars

\* rain started by an update has stopped again: the clouds are below the
\* threshold, rain is off and its intensity is the one it was started with
RainStoppedBelowThreshold ==
  /\ atmosphere.precipitation < PrecipitationThreshold
  /\ ~atmosphere.rain_enabled
  /\ ~atmosphere.snow_enabled
  /\ atmosphere.rain_intensity > PrecipitationThreshold

(***************************************************************************)
(* C14: setting a post-process option with an unknown effect or parameter  *)
(* name, or with an out-of-range (negative) value, is rejected with an     *)
(* error and leaves every enabled flag and every parameter as it was.      *)
(***************************************************************************)
InvalidOptionWrite ==
  /\ pp_set.called
  /\ \/ (pp_set.dict = "effects_enabled"
         /\ pp_set.name \notin DOMAIN DefaultEffectsEnabled)
     \/ (pp_set.dict = "params"
         /\ (pp_set.name \notin DOMAIN DefaultBloomParams
             \/ pp_params[pp_set.name] < 0))

InvalidOptionRejected ==
  InvalidOptionWrite =>
    /\ pp_set.raised
    /\ pp_enabled = pp_set.enabled_before
    /\ pp_params = pp_set.params_before

(***************************************************************************)
(* C11: a resize is transactional: when a size-dependent resource cannot   *)
(* be recreated, the failure is reported and the renderer's width, height  *)
(* and framebuffer set are the ones it had before the call.                *)
(***************************************************************************)
ResizeTransactional ==
  (hdr.state = "ready" /\ hdr.resize.called /\ hdr.error # "None") =>
    /\ hdr.resize.raised
    /\ hdr.width = hdr.resize.before.width
    /\ hdr.height = hdr.resize.before.height
    /\ hdr.g_buffer = hdr.resize.before.g_buffer
    /\ hdr.hdr_fbo = hdr.resize.before.hdr_fbo

(***************************************************************************)
(* C12: when a framebuffer is reported incomplete at creation, the         *)
(* initialization aborts with an error and none of the GL objects made by  *)
(* the failed creation (framebuffer, textures, renderbuffer) still exists. *)
(***************************************************************************)
FailedFramebuffer ==
  IF hdr.error = "G-buffer framebuffer not complete!" THEN "g_buffer"
  ELSE IF hdr.error = "HDR framebuffer not complete!" THEN "hdr_fbo"
  ELSE "None"

FailedFramebufferFreed ==
  (hdr.state # "unconstructed" /\ FailedFramebuffer # "None") =>
    /\ hdr.gen = 0 => hdr.state = "failed"
    /\ \A o \in gl_objects :
         ~(o.owner = FailedFramebuffer /\ o.gen = hdr.gen)

(***************************************************************************)
(* C13: when a shader program fails to compile or link during              *)
(* construction, no later initialization step runs and no program or       *)
(* shader object created before the failure still exists.                  *)
(***************************************************************************)
ShaderFailureAbortsCleanly ==
  (hdr.state = "failed" /\ hdr.error = "Failed to load shaders") =>
    /\ hdr.steps = <<"_init_opengl", "_load_shaders">>
    /\ {o \in gl_objects : o.kind \in {"program", "shader"}} = {}

(***************************************************************************)
(* C18: after initialization and after every resize, every colour and      *)
(* depth attachment of the G-buffer and of the HDR framebuffer has the     *)
(* renderer's current width and height.                                    *)
(***************************************************************************)
AttachmentsMatchSize ==
  hdr.state = "ready" =>
    \A o \in hdr.g_buffer \cup hdr.hdr_fbo :
      o.w = hdr.width /\ o.h = hdr.height

\* Rec. 709 luminance of a colour in thousandths, in units of 10^-7
Luminance(color) == 2126 * color[1] + 7152 * color[2] + 722 * color[3]

\* C19: for a fixed HDR pixel both tone mapping operators give every output
\* channel in [0, 1] and a mapped luminance that does not fall when the
\* exposure rises (a fall counts only beyond the fixed-point resolution, 0.002)
ToneMapMonotonicAndBounded ==
  tonemap.called =>
    /\ \A i \in 1..3 : tonemap.FragColor[i] \in 0..1000
    /\ \A e \in ExposureChoices :
         e > tonemap.u_Exposure =>
           Luminance(ToneMapMain(tonemap.hdrColor, e, tonemap.u_UseACES)) + 20000
             >= Luminance(tonemap.FragColor)

\* C20: both tone mapping operators map a black pixel to black, whatever the
\* exposure
BlackMapsToBlack ==
  (tonemap.called /\ tonemap.hdrColor = <<0, 0, 0>>) =>
    tonemap.FragColor = <<0, 0, 0>>

\* a black pixel went through the ACES operator, whose curve fit is negative
\* at zero, at the largest exposure
BlackThroughACES ==
  /\ tonemap.called
  /\ tonemap.hdrColor = <<0, 0, 0>>
  /\ tonemap.u_UseACES
  /\ tonemap.u_Exposure = 8
  /\ RRTAndODTFit(0) < 0
  /\ tonemap.FragColor = <<0, 0, 0>>

\* C21: in one bloom application the blur passes alternate strictly between
\* the two ping-pong buffers: no pass reads the buffer it writes, consecutive
\* passes write different buffers, and each pass reads what the previous
\* pass wrote
PingPongAlternation ==
  bloom.pc \in {"blur", "done"} =>
    \A k \in 1..Len(bloom.passes) :
      /\ bloom.passes[k].read # bloom.passes[k].write
      /\ k > 1 => /\ bloom.passes[k].write # bloom.passes[k - 1].write
                  /\ bloom.passes[k].read = bloom.passes[k - 1].write

\* C22: anti-aliasing is the last stage of apply_effects; it applies temporal
\* anti-aliasing exactly when a velocity buffer was passed and the fast spatial
\* method otherwise, never both and never the temporal one without a buffer
AntiAliasingByVelocity ==
  pp_call.called =>
    LET steps == pp_call.out.steps
        last == steps[Len(steps)]
    IN /\ last.stage = "anti_aliasing"
       /\ \A i \in 1..(Len(steps) - 1) : steps[i].stage # "anti_aliasing"
       /\ last.invoked
       /\ last.fn = IF pp_call.velocity_texture # NoneTexture THEN "_apply_taa"
                    ELSE "_apply_fxaa"

\* C25: a frame that returns normally has run every post-process stage whose
\* enabled flag is true (for anti-aliasing: one of the two methods when either
\* flag is true); apply_effects has no path that aborts
EnabledStagesAllRun ==
  pp_call.called =>
    \A i \in DOMAIN pp_call.out.steps :
      LET r == pp_call.out.steps[i]
      IN IF r.stage = "anti_aliasing"
         THEN (pp_enabled["taa"] \/ pp_enabled["fxaa"]) => r.invoked
         ELSE pp_enabled[r.stage] => r.invoked

\* C23: the lighting pass writes linear HDR radiance: its FragColor is the
\* sum ambient + Lo, neither tone-mapped nor gamma-corrected
LightingOutputLinear ==
  shading.rendered => shading.FragColor = shading.color

\* the shadow maps bound when the map that light i samples is replaced
ShadowMapReplaced(i, other) ==
  IF shadow_lookup(shading.u_Lights[i], shading.u_NumShadowMaps)
  THEN [shading.u_ShadowMaps EXCEPT ![shading.u_Lights[i].shadowMapIndex + 1] = other]
  ELSE shading.u_ShadowMaps

\* C24: replacing the shadow map of light i leaves the contribution of every
\* other light j of the fragment, and the ambient term, as they were
ShadowScalesOwnLightOnly ==
  shading.rendered =>
    \A i \in DOMAIN shading.u_Lights, other \in ShadowSamples :
      /\ \A j \in DOMAIN shading.u_Lights \ {i} :
           LightContribution(shading.u_Lights[j], shading.u_NumShadowMaps,
                             ShadowMapReplaced(i, other), shading.unshadowed)
             = shading.contributions[j]
      /\ Ambient(shading.albedo) = shading.ambient

\* the list Scene.update must leave: the objects that were in the scene and
\* the pending additions not yet in it, in that order, without the pending
\* removals
RECURSIVE Deduplicated(_)
Deduplicated(q) ==
  IF q = <<>> THEN <<>>
  ELSE LET front == Deduplicated(SubSeq(q, 1, Len(q) - 1))
       IN IF Contains(front, q[Len(q)]) THEN front ELSE Append(front, q[Len(q)])

ExpectedAfterUpdate(s) ==
  LET removed(o) == ~Contains(s._game_objects_to_remove, o)
  IN SelectSeq(Deduplicated(s.game_objects \o s._game_objects_to_add), removed)

\* C26: add_game_object and remove_game_object leave Scene.game_objects as it
\* is; the next update applies the pending additions, then the pending
\* removals, then updates the remaining objects, and empties both queues
SceneChangesDeferred ==
  [][/\ game_scene'.last_op \in {"add", "remove"} =>
          game_scene'.game_objects = game_scene.game_objects
     /\ game_scene'.last_op = "update" =>
          /\ game_scene'.game_objects = ExpectedAfterUpdate(game_scene)
          /\ game_scene'.last_updated = game_scene'.game_objects
          /\ game_scene'._game_objects_to_add = <<>>
          /\ game_scene'._game_objects_to_remove = <<>>]_vars

\* an update has applied an addition and, for another object, a removal
UpdateAppliedAddAndRemove ==
  /\ game_scene.last_op = "update"
  /\ game_scene.game_objects # <<>>
  /\ \E o \in GameObjects :
       game_scene.objects[o].destroyed /\ ~Contains(game_scene.game_objects, o)

\* C27: Scene.game_objects never holds an object twice, and start() runs at
\* most once per object and never after that object's first update()
NoDuplicateNoRestart ==
  /\ \A i, j \in DOMAIN game_scene.game_objects :
       game_scene.game_objects[i] = game_scene.game_objects[j] => i = j
  /\ \A o \in GameObjects :
       /\ game_scene.objects[o].starts <= 1
       /\ ~game_scene.objects[o].update_before_start
       /\ game_scene.objects[o].updated => game_scene.objects[o].starts = 1

\* an object that was removed earlier has been added again and updated by
\* the last update
ReAddedAfterRemoval ==
  /\ game_scene.last_op = "update"
  /\ \E o \in GameObjects :
       /\ game_scene.objects[o].destroyed
       /\ Contains(game_scene.last_updated, o)
       /\ game_scene.objects[o].starts = 1

\* C28: precipitation latches.  The update that activates rain or snow gives
\* the active kind the cloud precipitation of that update as its intensity;
\* from then on, as long as every update sees the cloud precipitation above
\* the threshold, no step changes the active kind or the intensity the
\* shaders receive, whatever is written to the cloud precipitation
PrecipitationActive(a) == a.rain_enabled \/ a.snow_enabled

PrecipitationLatches ==
  [][/\ (IsUpdateStep /\ ~PrecipitationActive(atmosphere)
           /\ PrecipitationActive(atmosphere'))
          => get_atmosphere_uniforms(atmosphere')
               \in {[rain_intensity |-> atmosphere.precipitation,
                     snow_intensity |-> 0],
                    [rain_intensity |-> 0,
                     snow_intensity |-> atmosphere.precipitation]}
     /\ (PrecipitationActive(atmosphere)
           /\ (IsUpdateStep => atmosphere.precipitation > PrecipitationThreshold))
          => /\ atmosphere'.rain_enabled = atmosphere.rain_enabled
             /\ atmosphere'.snow_enabled = atmosphere.snow_enabled
             /\ get_atmosphere_uniforms(atmosphere')
                  = get_atmosphere_uniforms(atmosphere)]_vars

\* snow is falling with the intensity it was started with while the clouds
\* have since moved to another value above the threshold
SnowLatchedWhileCloudsChanged ==
  /\ atmosphere.snow_enabled
  /\ ~atmosphere.rain_enabled
  /\ atmosphere.precipitation > PrecipitationThreshold
  /\ atmosphere.snow_intensity > PrecipitationThreshold
  /\ atmosphere.snow_intensity # atmosphere.precipitation

\* the positions, in the handler list of the key, of the handlers registered
\* with on_key_press
PressHandlers(key) ==
  {i \in DOMAIN input_manager._key_handlers[key] :
     input_manager._key_handlers[key][i] = "press"}

\* C29: a callback registered with on_key_press is called once for each
\* KEYDOWN event of its key and not at all for a KEYUP event of that key
KeyPressCallbackOnKeyDownOnly ==
  LET e == input_manager.event
  IN /\ e.type = "KEYDOWN" =>
          \A i \in PressHandlers(e.key) :
            Cardinality({k \in DOMAIN e.callbacks : e.callbacks[k] = i}) = 1
     /\ e.type = "KEYUP" =>
          \A i \in PressHandlers(e.key) :
            \A k \in DOMAIN e.callbacks : e.callbacks[k] # i

\* C30: after any sequence of zoom_in, zoom_out and set_zoom calls, with any
\* amounts, min_zoom <= zoom <= max_zoom
ZoomWithinLimits ==
  /\ game_camera.min_zoom <= game_camera.zoom
  /\ game_camera.zoom <= game_camera.max_zoom

====
